---- MODULE Spec2Model ----
(***************************************************************************)
(* A model of health.py, the Warfarin x Food bot: the normalizer, the      *)
(* corpus loader and indexer, the resolver (search_foods over difflib),    *)
(* the pager, the language preference store and the command handlers.      *)
(*                                                                         *)
(* Python values are modelled as follows.                                  *)
(*   str    a sequence of one-character strings: "ab" is <<"a", "b">>      *)
(*   dict   a sequence of <<key, value>> pairs with distinct keys, in      *)
(*          insertion order (Python dicts keep insertion order)            *)
(*   JSON   a tagged record [t |-> "str" | "num" | "list" | "null", v]     *)
(*   a raw food record (a JSON object) is a function from the field names  *)
(*   it holds to JSON values                                               *)
(***************************************************************************)
EXTENDS Integers, Sequences, FiniteSets, TLC

VARIABLES
    phase,        \* "boot" before the module is imported, then "run" or "crashed"
    foodsFile,    \* data/foods.json, a dict of raw records
    userFoodsFile,\* data/user_foods.json, a dict of raw records (empty when absent)
    usersFile,    \* data/users.json, a dict user id -> {"lang": tag}
    FOODS,        \* module global FOODS
    ALIAS,        \* module global ALIAS
    raw,          \* the merged corpus rebuild_indexes read (its local raw)
    USERS,        \* module global USERS
    user_data,    \* context.user_data, per user: a function from the keys set so far
    outbox,       \* what the last handler sent: a sequence of messages
    call,         \* the last call or update handled: [op |-> ..., ...]
    lastSel,      \* history: per user, the value of the latest language selection
    lastList,     \* history: per user, the list of the latest listing command
    lastShown,    \* history: per user, the latest non-empty list of a listing command
    navSince,     \* history: per user, the page of the latest navigation since lastList
    navShown      \* history: per user, the page of the latest navigation since lastShown

vars == <<phase, foodsFile, userFoodsFile, usersFile, FOODS, ALIAS, raw, USERS,
          user_data, outbox, call, lastSel, lastList, lastShown, navSince, navShown>>

None == [t |-> "null"]

----------------------------------------------------------------------------
(* Python str and list helpers *)

Min(S) == CHOOSE x \in S : \A y \in S : x <= y
Max(S) == CHOOSE x \in S : \A y \in S : x >= y

\* F(v) with v evaluated once: a local variable of the code holding a value.
Bind(v, F(_)) == CHOOSE r \in {F(x) : x \in {v}} : TRUE

UpperLetters ==
    <<"A", "B", "C", "D", "E", "F", "G", "H", "I", "J", "K", "L", "M", "N",
      "O", "P", "Q", "R", "S", "T", "U", "V", "W", "X", "Y", "Z">>
LowerLetters ==
    <<"a", "b", "c", "d", "e", "f", "g", "h", "i", "j", "k", "l", "m", "n",
      "o", "p", "q", "r", "s", "t", "u", "v", "w", "x", "y", "z">>
DigitChars == <<"0", "1", "2", "3", "4", "5", "6", "7", "8", "9">>

\* The characters of the model in code point order (str comparison is by code point).
CodePointOrder ==
    <<" ", "!", "'", "-">> \o DigitChars \o <<":">> \o UpperLetters \o LowerLetters

OrdOf ==
    [c \in {CodePointOrder[i] : i \in 1..Len(CodePointOrder)} |->
        CHOOSE i \in 1..Len(CodePointOrder) : CodePointOrder[i] = c]
Ord(c) == OrdOf[c]

\* str < str: lexicographic by code point, a proper prefix first.
RECURSIVE StrLess(_, _)
StrLess(s, t) ==
    IF t = <<>> THEN FALSE
    ELSE IF s = <<>> THEN TRUE
    ELSE IF s[1] /= t[1] THEN Ord(s[1]) < Ord(t[1])
    ELSE StrLess(Tail(s), Tail(t))

\* One character of str.lower().
LowerChar(c) ==
    IF \E i \in 1..Len(UpperLetters) : UpperLetters[i] = c
    THEN LowerLetters[CHOOSE i \in 1..Len(UpperLetters) : UpperLetters[i] = c]
    ELSE c

str_lower(s) == [i \in 1..Len(s) |-> LowerChar(s[i])]

IsSpace(c) == c = " "

\* str.strip(): leading and trailing whitespace removed.
str_strip(s) ==
    LET idx == {i \in 1..Len(s) : ~IsSpace(s[i])}
    IN  IF idx = {} THEN <<>> ELSE SubSeq(s, Min(idx), Max(idx))

\* str.startswith(prefix)
str_startswith(s, p) == Len(s) >= Len(p) /\ SubSeq(s, 1, Len(p)) = p

\* sep.join(list of str)
RECURSIVE str_join(_, _)
str_join(sep, xs) ==
    IF xs = <<>> THEN <<>>
    ELSE IF Len(xs) = 1 THEN xs[1]
    ELSE xs[1] \o sep \o str_join(sep, Tail(xs))

\* Python's s[lo:hi] for 0 <= lo <= hi, on a 1-indexed sequence: both ends are
\* clamped to the length, so a slice past the end is empty and never fails.
Slice(s, lo, hi) ==
    LET l == IF lo > Len(s) THEN Len(s) ELSE lo
        h == IF hi > Len(s) THEN Len(s) ELSE hi
    IN  IF l >= h THEN <<>> ELSE SubSeq(s, l + 1, h)

----------------------------------------------------------------------------
(* dict helpers: a dict is a sequence of <<key, value>> pairs *)

DictKeys(d) == [i \in 1..Len(d) |-> d[i][1]]
DictKeySet(d) == {d[i][1] : i \in 1..Len(d)}
DictHas(d, k) == k \in DictKeySet(d)
DictGet(d, k) == d[CHOOSE i \in 1..Len(d) : d[i][1] = k][2]

\* d[k] = v: an existing key keeps its place, a new key goes last.
DictSet(d, k, v) ==
    IF DictHas(d, k)
    THEN [i \in 1..Len(d) |-> IF d[i][1] = k THEN <<k, v>> ELSE d[i]]
    ELSE Append(d, <<k, v>>)

\* {**a, **b}
RECURSIVE DictUpdate(_, _)
DictUpdate(a, b) ==
    IF b = <<>> THEN a
    ELSE DictUpdate(DictSet(a, b[1][1], b[1][2]), Tail(b))

----------------------------------------------------------------------------
(* _norm, health.py:78-80 *)

Letters == {LowerLetters[i] : i \in 1..Len(LowerLetters)}
Digits == {DigitChars[i] : i \in 1..Len(DigitChars)}

\* The characters the regex [^a-z<cyrillic>0-9\s\-'] keeps.  The Cyrillic
\* ranges keep their letters exactly as a-z keeps the Latin ones; the model's
\* alphabet is ASCII.
Kept(c) == c \in Letters \cup Digits \cup {" ", "-", "'"}

\* _norm on a str: lower, strip, then drop every character not kept.
norm_str(s) == SelectSeq(str_strip(str_lower(s)), Kept)

----------------------------------------------------------------------------
(* difflib.SequenceMatcher(None, a, b) and difflib.get_close_matches, as    *)
(* health.py:133 and health.py:371 use them.  No junk function is given,    *)
(* and the automatic junk heuristic only acts on a second sequence of 200   *)
(* characters or more, longer than any string of the model.  Positions are  *)
(* 0-based and ranges half-open as in difflib: a[i] is written a[i + 1].    *)

\* The length of the common run of a[i:ahi] and b[j:bhi] starting at (i, j).
RECURSIVE RunLen(_, _, _, _, _, _)
RunLen(a, b, i, j, ahi, bhi) ==
    IF i < ahi /\ j < bhi /\ a[i + 1] = b[j + 1]
    THEN 1 + RunLen(a, b, i + 1, j + 1, ahi, bhi)
    ELSE 0

\* find_longest_match: <<i, j, k>>, the longest block a[i:i+k] = b[j:j+k] in
\* the window; of the longest blocks the one starting earliest in a and, of
\* those, earliest in b; <<alo, blo, 0>> when nothing matches.
find_longest_match(a, b, alo, ahi, blo, bhi) ==
    Bind([p \in {q \in (alo..(ahi - 1)) \X (blo..(bhi - 1)) : a[q[1] + 1] = b[q[2] + 1]} |->
             RunLen(a, b, p[1], p[2], ahi, bhi)],
         LAMBDA size :
             IF DOMAIN size = {} THEN <<alo, blo, 0>>
             ELSE LET k  == Max({size[p] : p \in DOMAIN size})
                      bi == Min({p[1] : p \in {q \in DOMAIN size : size[q] = k}})
                      bj == Min({p[2] : p \in {q \in DOMAIN size : q[1] = bi /\ size[q] = k}})
                  IN  <<bi, bj, k>>)

\* The total size of get_matching_blocks(): the longest block of the window,
\* then the blocks of what lies left of it and of what lies right of it.
RECURSIVE MatchTotal(_, _, _, _, _, _)
MatchTotal(a, b, alo, ahi, blo, bhi) ==
    Bind(find_longest_match(a, b, alo, ahi, blo, bhi),
         LAMBDA m :
             LET i == m[1]
                 j == m[2]
                 k == m[3]
             IN  IF k = 0 THEN 0
                 ELSE k
                      + (IF alo < i /\ blo < j THEN MatchTotal(a, b, alo, i, blo, j) ELSE 0)
                      + (IF i + k < ahi /\ j + k < bhi
                         THEN MatchTotal(a, b, i + k, ahi, j + k, bhi) ELSE 0))

\* SequenceMatcher(None, a, b).ratio() as the fraction <<numerator, denominator>>:
\* 2.0 * matches / (len(a) + len(b)), and 1.0 for two empty sequences.
ratio(a, b) ==
    IF Len(a) + Len(b) = 0 THEN <<1, 1>>
    ELSE <<2 * MatchTotal(a, b, 0, Len(a), 0, Len(b)), Len(a) + Len(b)>>

\* ratio >= percent / 100
RatioAtLeast(r, percent) == r[1] * 100 >= percent * r[2]

\* (score1, x1) > (score2, x2) as heapq.nlargest compares the tuples.
ScoredGreater(p, q) ==
    \/ p[1][1] * q[1][2] > q[1][1] * p[1][2]
    \/ p[1][1] * q[1][2] = q[1][1] * p[1][2] /\ StrLess(q[2], p[2])

\* sorted(result, reverse=True), which is what heapq.nlargest returns the head
\* of: the tuples are distinct (the possibilities are), so each has its own
\* number of greater tuples, which is its place.
SortScored(ps) ==
    Bind([i \in 1..Len(ps) |->
             Cardinality({j \in 1..Len(ps) : ScoredGreater(ps[j], ps[i])})],
         LAMBDA greater :
             [k \in 1..Len(ps) |-> ps[CHOOSE i \in 1..Len(ps) : greater[i] = k - 1]])

\* get_close_matches(word, possibilities, n, cutoff) for n > 0: the (at most)
\* n possibilities that score at least the cutoff, best first.  The word is
\* the second sequence.  real_quick_ratio() and quick_ratio() are upper
\* bounds of ratio(), so that the three tests of difflib amount to the last.
get_close_matches(word, possibilities, n, cutoffPercent) ==
    Bind(SelectSeq([i \in 1..Len(possibilities) |->
                       <<ratio(possibilities[i], word), possibilities[i]>>],
                   LAMBDA p : RatioAtLeast(p[1], cutoffPercent)),
         LAMBDA result :
             Bind(Slice(SortScored(result), 0, n),
                  LAMBDA best : [i \in 1..Len(best) |-> best[i][2]]))

----------------------------------------------------------------------------
(* JSON values as json.loads gives them, and Python's truth of them *)

Str(s) == [t |-> "str", v |-> s]
Num(n) == [t |-> "num", v |-> n]
List(xs) == [t |-> "list", v |-> xs]

Truthy(x) ==
    CASE x.t = "str"  -> x.v /= <<>>
      [] x.t = "num"  -> x.v /= 0
      [] x.t = "list" -> x.v /= <<>>
      [] OTHER        -> FALSE

\* x or y
OrElse(x, y) == IF Truthy(x) THEN x ELSE y

\* it.get(f)
Get(it, f) == IF f \in DOMAIN it THEN it[f] ELSE None

\* _norm(s) raises AttributeError on a truthy value that is no str: (s or "")
\* is s itself, and only a str has lower().
norm_raises(x) == Truthy(x) /\ x.t /= "str"

\* _norm(s), health.py:78-80, where it does not raise: (s or "") is "" for
\* None, 0, "" and [].
_norm(x) == IF Truthy(x) THEN norm_str(x.v) ELSE <<>>

----------------------------------------------------------------------------
(* load_foods_merged and rebuild_indexes, health.py:50-59 and 82-120 *)

INCREASE == <<"i", "n", "c", "r", "e", "a", "s", "e">>
DECREASE == <<"d", "e", "c", "r", "e", "a", "s", "e">>
NEUTRAL  == <<"n", "e", "u", "t", "r", "a", "l">>

\* A merge in which the base record wins a key collision.
load_foods_merged_base_wins(base, user) == DictUpdate(user, base)

\* merged = {**base, **user}
load_foods_merged(base, user) == DictUpdate(base, user)

\* The three values .strip() is called on; a value that is no str raises.
\* The field the code reads as a Cyrillic word is named "nazva" here.
raw_name_en(key, it) ==
    OrElse(Get(it, "name_en"), OrElse(Get(it, "en"), OrElse(Get(it, "name"), Str(key))))
raw_name_uk(it, name_en) ==
    OrElse(Get(it, "name_uk"), OrElse(Get(it, "uk"), OrElse(Get(it, "nazva"), Str(name_en))))
raw_effect(it) == OrElse(Get(it, "effect"), Str(NEUTRAL))

\* eff after health.py:94-96
effect_of(x) ==
    LET eff == str_lower(str_strip(x.v))
    IN  IF eff \in {INCREASE, DECREASE, NEUTRAL} THEN eff ELSE NEUTRAL

\* The item of health.py:98-110, for a record whose names and effect are strs.
item_of(key, it) ==
    LET name_en == str_strip(raw_name_en(key, it).v)
        name_uk == str_strip(raw_name_uk(it, name_en).v)
    IN  [name_en     |-> name_en,
         name_uk     |-> name_uk,
         effect      |-> effect_of(raw_effect(it)),
         vitamin_k   |-> OrElse(Get(it, "vitamin_k"), Str(<<>>)),
         advice_en   |-> OrElse(Get(it, "advice_en"), Str(<<>>)),
         advice_uk   |-> OrElse(Get(it, "advice_uk"), OrElse(Get(it, "advice"), Str(<<>>))),
         image       |-> OrElse(Get(it, "image"), Str(<<>>)),
         synonyms_en |-> OrElse(Get(it, "synonyms_en"), List(<<>>)),
         synonyms_uk |-> OrElse(Get(it, "synonyms_uk"), List(<<>>)),
         sources     |-> OrElse(Get(it, "sources"), List(<<>>)),
         nutrition   |-> OrElse(Get(it, "nutrition"), None)]

\* *x in a list display: the elements of a list, the characters of a str;
\* a number is not iterable (TypeError).
unpack_raises(x) == x.t \notin {"list", "str"}
unpack(x) == IF x.t = "str" THEN [i \in 1..Len(x.v) |-> Str(<<x.v[i]>>)] ELSE x.v

\* [name_en, name_uk, *item["synonyms_en"], *item["synonyms_uk"]], health.py:115
variants_of(item) ==
    <<Str(item.name_en), Str(item.name_uk)>>
        \o unpack(item.synonyms_en) \o unpack(item.synonyms_uk)

\* The loop of health.py:115-118 over the variants of one record, alias[ns] =
\* canon for each variant whose normalization ns is not empty: the aliases
\* already there now point to canon, and the new ones follow in the order
\* they are first met.
register_aliases(alias, variants, canon) ==
    Bind([i \in 1..Len(variants) |-> _norm(variants[i])],
         LAMBDA ns :
             LET met   == {ns[i] : i \in 1..Len(ns)} \ {<<>>}
                 first == SelectSeq([i \in 1..Len(ns) |-> i],
                                    LAMBDA i : /\ ns[i] /= <<>>
                                               /\ ~DictHas(alias, ns[i])
                                               /\ \A j \in 1..(i - 1) : ns[j] /= ns[i])
             IN  [i \in 1..Len(alias) |->
                     IF alias[i][1] \in met THEN <<alias[i][1], canon>> ELSE alias[i]]
                 \o [k \in 1..Len(first) |-> <<ns[first[k]], canon>>])

\* Whether the loop body of health.py:91-118 raises on the record.
record_raises(key, it) ==
    \/ raw_name_en(key, it).t /= "str"
    \/ raw_name_uk(it, <<>>).t /= "str"
    \/ raw_effect(it).t /= "str"
    \/ unpack_raises(item_of(key, it).synonyms_en)
    \/ unpack_raises(item_of(key, it).synonyms_uk)
    \/ \E vs \in {variants_of(item_of(key, it))} :
           \E i \in 1..Len(vs) : norm_raises(vs[i])

\* The loop of health.py:91-118 over raw.items(), from the indexes built so
\* far: an exception leaves the loop and rebuild_indexes at once.
RECURSIVE build_loop(_, _, _)
build_loop(rest, foods, alias) ==
    IF rest = <<>> THEN [raised |-> FALSE, foods |-> foods, alias |-> alias]
    ELSE LET key == rest[1][1]
             it  == rest[1][2]
         IN  IF record_raises(key, it)
             THEN [raised |-> TRUE, foods |-> foods, alias |-> alias]
             ELSE Bind(item_of(key, it),
                       LAMBDA item :
                           build_loop(Tail(rest),
                                      DictSet(foods, str_lower(item.name_en), item),
                                      register_aliases(alias, variants_of(item),
                                                       str_lower(item.name_en))))

\* rebuild_indexes(): what it read (raw), whether it raised, and what it built.
rebuild_indexes(base, user) ==
    Bind(load_foods_merged(base, user),
         LAMBDA merged :
             Bind(build_loop(merged, <<>>, <<>>),
                  LAMBDA built : [raw |-> merged, raised |-> built.raised,
                                  foods |-> built.foods, alias |-> built.alias]))

----------------------------------------------------------------------------
(* search_foods, health.py:124-142 *)

CandidateFactor == 3
CandidateFloor == 60
CutoffPercent == 45

\* The loop of health.py:135-141: the canonical keys of the matches, each
\* once, until there are n of them (the test comes after the append).
RECURSIVE collect_keys(_, _, _)
collect_keys(maybes, out, n) ==
    IF maybes = <<>> THEN out
    ELSE LET canon == DictGet(ALIAS, maybes[1])
             out2  == IF \E i \in 1..Len(out) : out[i] = canon
                      THEN out ELSE Append(out, canon)
         IN  IF Len(out2) >= n THEN out2
             ELSE collect_keys(Tail(maybes), out2, n)

\* max(n*3, 60), the number of close matches asked of difflib
candidate_count(n) == Max({n * CandidateFactor, CandidateFloor})

\* search_foods without the exact lookup of health.py:129-130.
search_trace_no_exact(q, n) ==
    LET qn == _norm(Str(q))
    IN  IF qn = <<>> THEN [out |-> <<>>, fuzzy |-> FALSE]
        ELSE [out   |-> collect_keys(get_close_matches(qn, DictKeys(ALIAS),
                                                       candidate_count(n), CutoffPercent),
                                     <<>>, n),
              fuzzy |-> TRUE]

\* search_foods(q, n) with the path it took: out is what it returns, fuzzy
\* whether get_close_matches was called.
search_trace(q, n) ==
    LET qn == _norm(Str(q))
    IN  IF qn = <<>> THEN [out |-> <<>>, fuzzy |-> FALSE]
        ELSE IF DictHas(ALIAS, qn) THEN [out |-> <<DictGet(ALIAS, qn)>>, fuzzy |-> FALSE]
        ELSE [out   |-> collect_keys(get_close_matches(qn, DictKeys(ALIAS),
                                                       candidate_count(n), CutoffPercent),
                                     <<>>, n),
              fuzzy |-> TRUE]

search_foods(q, n) == search_trace(q, n).out

----------------------------------------------------------------------------
(* int <-> str, as f"{page}" and int(...) convert a page index *)

RECURSIVE int_to_str(_)
int_to_str(n) ==
    IF n < 10 THEN <<DigitChars[n + 1]>>
    ELSE int_to_str(n \div 10) \o <<DigitChars[(n % 10) + 1]>>

DigitValue(c) == (CHOOSE i \in 1..Len(DigitChars) : DigitChars[i] = c) - 1

RECURSIVE str_to_int(_)
str_to_int(s) ==
    IF Len(s) = 1 THEN DigitValue(s[1])
    ELSE 10 * str_to_int(SubSeq(s, 1, Len(s) - 1)) + DigitValue(s[Len(s)])

\* data.split(":", 1)[1]: what follows the first colon
after_colon(data) ==
    LET i == Min({j \in 1..Len(data) : data[j] = ":"})
    IN  SubSeq(data, i + 1, Len(data))

PAGE_ == <<"p", "a", "g", "e", ":">>
SHOW_ == <<"s", "h", "o", "w", ":">>
LANG_ == <<"l", "a", "n", "g", ":">>

----------------------------------------------------------------------------
(* _names_sorted and _alphabet_pages, health.py:224-241 *)

PerPageDefault == 20

EN == <<"e", "n">>
UK == <<"u", "k">>

\* sorted(items, key=lambda x: x[1].lower()): stable, so an item goes after
\* the items whose key is not greater than its own.
RECURSIVE insert_by_name(_, _)
insert_by_name(sorted, x) ==
    IF sorted = <<>> THEN <<x>>
    ELSE IF StrLess(str_lower(x[2]), str_lower(sorted[1][2])) THEN <<x>> \o sorted
    ELSE <<sorted[1]>> \o insert_by_name(Tail(sorted), x)

RECURSIVE sorted_by_name(_)
sorted_by_name(items) ==
    IF items = <<>> THEN <<>>
    ELSE insert_by_name(sorted_by_name(SubSeq(items, 1, Len(items) - 1)), items[Len(items)])

\* _names_sorted(lang, effect); effect is None or a str.
_names_sorted(lang, effect) ==
    LET keep(i) == ~Truthy(effect) \/ str_lower(FOODS[i][2].effect) = effect.v
        pair(i) == <<FOODS[i][1],
                     IF lang = EN THEN FOODS[i][2].name_en ELSE FOODS[i][2].name_uk>>
        idx     == SelectSeq([i \in 1..Len(FOODS) |-> i], keep)
    IN  sorted_by_name([j \in 1..Len(idx) |-> pair(idx[j])])

\* A pager that offers the next page whenever the chunk ends at or before the
\* end of the list.
_alphabet_pages_next_le(pairs, page, per_page) ==
    LET start == page * per_page
        chunk == Slice(pairs, start, start + per_page)
        kb    == [i \in 1..Len(chunk) |->
                     <<[text |-> chunk[i][2], callback_data |-> SHOW_ \o chunk[i][1]]>>]
        prev  == IF page > 0
                 THEN <<[text |-> "prev", callback_data |-> PAGE_ \o int_to_str(page - 1)]>>
                 ELSE <<>>
        next  == IF start + per_page <= Len(pairs)
                 THEN <<[text |-> "next", callback_data |-> PAGE_ \o int_to_str(page + 1)]>>
                 ELSE <<>>
        nav   == prev \o next
    IN  IF nav /= <<>> THEN Append(kb, nav) ELSE kb

\* _alphabet_pages(pairs, page, per_page): the keyboard, one row per item of
\* the chunk and then the navigation row when it holds a button.
_alphabet_pages(pairs, page, per_page) ==
    LET start == page * per_page
        chunk == Slice(pairs, start, start + per_page)
        kb    == [i \in 1..Len(chunk) |->
                     <<[text |-> chunk[i][2], callback_data |-> SHOW_ \o chunk[i][1]]>>]
        prev  == IF page > 0
                 THEN <<[text |-> "prev", callback_data |-> PAGE_ \o int_to_str(page - 1)]>>
                 ELSE <<>>
        next  == IF start + per_page < Len(pairs)
                 THEN <<[text |-> "next", callback_data |-> PAGE_ \o int_to_str(page + 1)]>>
                 ELSE <<>>
        nav   == prev \o next
    IN  IF nav /= <<>> THEN Append(kb, nav) ELSE kb

----------------------------------------------------------------------------
(* The language preference, health.py:61-75 *)

\* get_lang(user_id): (USERS.get(str(user_id), {}).get("lang") or "uk").lower()
get_lang(user_id) ==
    LET key   == int_to_str(user_id)
        entry == IF DictHas(USERS, key) THEN DictGet(USERS, key) ELSE <<>>
    IN  str_lower(OrElse(Get(entry, "lang"), Str(UK)).v)

\* A tag taken from the whole selected value instead of its prefix.
lang_tag_exact(lang) == IF str_lower(lang) = EN THEN EN ELSE UK

\* The tag set_lang stores for a selected value.
lang_tag(lang) == IF str_startswith(str_lower(lang), EN) THEN EN ELSE UK

\* USERS after set_lang(user_id, lang)
set_lang(user_id, lang) ==
    DictSet(USERS, int_to_str(user_id), [lang |-> Str(lang_tag(lang))])

----------------------------------------------------------------------------
(* Bounds and inputs *)

MaxPage == 2
MaxLimit == 2
MaxItems == 5
MaxPerPage == 3

Users == {1, 2}
NoUser == [u \in Users |-> <<>>]

ab == <<"a", "b">>
ad == <<"a", "d">>
ba == <<"b", "a">>
cc == <<"c", "c">>

\* The corpus of the running bot: two foods that increase the effect, one
\* neutral one, none that decreases it.
BotFoods ==
    << <<ab, [name_en |-> Str(<<"A", "b">>), name_uk |-> Str(<<"d", "a">>),
              effect |-> Str(INCREASE)]>>,
       <<ad, [effect |-> Str(<<"I", "n", "c", "r", "e", "a", "s", "e", " ">>),
              synonyms_en |-> List(<<Str(<<"a", "b", "d">>)>>)]>>,
       <<cc, [name |-> Str(<<"C", "c">>), name_uk |-> Str(ba),
              image |-> Str(<<"i">>)]>> >>

\* The values a language selection carries after "lang:".
LangValues == {EN, <<"E", "N", "G">>, UK, <<"f", "r">>, <<>>}

\* The two values the buttons of the bot carry.
ButtonLangValues == {EN, UK}

\* The user who browses the lists.
Browsers == {1}

\* The argument lists of /food.
FoodArgs ==
    {<<>>, <<ab>>, <<<<"a", "b", "a", "b">>>>, <<<<"a", "c">>>>, <<<<"z", "z">>>>,
     <<<<"d", "a">>, <<"A", "b", "!">>>>, <<ba>>}

----------------------------------------------------------------------------
(* The state machine *)

Boot(base, user) ==
    /\ phase = "boot"
    /\ foodsFile = base
    /\ userFoodsFile = user
    /\ usersFile = <<>>
    /\ FOODS = <<>>
    /\ ALIAS = <<>>
    /\ raw = <<>>
    /\ USERS = <<>>
    /\ user_data = NoUser
    /\ outbox = <<>>
    /\ call = [op |-> "none"]
    /\ lastSel = NoUser
    /\ lastList = NoUser
    /\ lastShown = NoUser
    /\ navSince = NoUser
    /\ navShown = NoUser

Init == Boot(BotFoods, <<>>)

history == <<lastSel, lastList, lastShown, navSince, navShown>>
files == <<foodsFile, userFoodsFile>>

\* Importing health.py: USERS = load_users() (line 68), then
\* FOODS, ALIAS = rebuild_indexes() (line 122); an exception ends the process.
Import ==
    /\ phase = "boot"
    /\ \E r \in {rebuild_indexes(foodsFile, userFoodsFile)} :
           IF r.raised
           THEN /\ phase' = "crashed"
                /\ USERS' = usersFile
                /\ raw' = r.raw
                /\ UNCHANGED <<FOODS, ALIAS>>
           ELSE /\ phase' = "run"
                /\ USERS' = usersFile
                /\ raw' = r.raw
                /\ FOODS' = r.foods
                /\ ALIAS' = r.alias
    /\ call' = [op |-> "import"]
    /\ UNCHANGED <<files, usersFile, user_data, outbox, history>>

\* cb_lang, health.py:260-270, on callback data "lang:<value>"; save_users
\* rewrites the file with the whole map.
cb_lang(u, data) ==
    /\ phase = "run"
    /\ str_startswith(data, LANG_)
    /\ LET lang == after_colon(data)
       IN  /\ USERS' = set_lang(u, lang)
           /\ usersFile' = USERS'
           /\ outbox' = <<[kind |-> "edit_text", saved |-> lang],
                          [kind |-> "text", main_kb |-> lang]>>
           /\ lastSel' = [lastSel EXCEPT ![u] = <<lang>>]
    /\ call' = [op |-> "cb_lang", user |-> u]
    /\ UNCHANGED <<phase, files, FOODS, ALIAS, raw, user_data,
                   lastList, lastShown, navSince, navShown>>

\* A listing command that stores the pair list and leaves the page index.
list_command_keeps_page(u, op, effect) ==
    /\ phase = "run"
    /\ LET lang  == get_lang(u)
           pairs == _names_sorted(lang, effect)
       IN  /\ IF pairs = <<>>
              THEN /\ outbox' = <<[kind |-> "no_items", main_kb |-> lang]>>
                   /\ UNCHANGED <<user_data, lastShown, navShown>>
              ELSE /\ user_data' = [user_data EXCEPT
                                       ![u] = ("pairs" :> pairs) @@ @]
                   /\ outbox' = <<[kind |-> "list", header |-> op,
                                   reply_markup |-> _alphabet_pages(pairs, 0, PerPageDefault)]>>
                   /\ lastShown' = [lastShown EXCEPT ![u] = <<pairs>>]
                   /\ navShown' = [navShown EXCEPT ![u] = <<>>]
           /\ lastList' = [lastList EXCEPT ![u] = <<pairs>>]
           /\ navSince' = [navSince EXCEPT ![u] = <<>>]
    /\ call' = [op |-> op, user |-> u]
    /\ UNCHANGED <<phase, files, usersFile, FOODS, ALIAS, raw, USERS, lastSel>>

\* The body shared by cmd_list, cmd_list_increase and cmd_list_decrease,
\* health.py:272-305: effect is None, "increase" or "decrease".
list_effects(u, op, effect) ==
    LET lang  == get_lang(u)
        pairs == _names_sorted(lang, effect)
    IN  /\ IF pairs = <<>>
           THEN /\ outbox' = <<[kind |-> "no_items", main_kb |-> lang]>>
                /\ UNCHANGED <<user_data, lastShown, navShown>>
           ELSE /\ user_data' = [user_data EXCEPT
                                    ![u] = ("pairs" :> pairs) @@ ("page" :> 0) @@ @]
                /\ outbox' = <<[kind |-> "list", header |-> op,
                                reply_markup |-> _alphabet_pages(pairs, 0, PerPageDefault)]>>
                /\ lastShown' = [lastShown EXCEPT ![u] = <<pairs>>]
                /\ navShown' = [navShown EXCEPT ![u] = <<>>]
        /\ lastList' = [lastList EXCEPT ![u] = <<pairs>>]
        /\ navSince' = [navSince EXCEPT ![u] = <<>>]

list_command(u, op, effect) ==
    /\ phase = "run"
    /\ list_effects(u, op, effect)
    /\ call' = [op |-> op, user |-> u]
    /\ UNCHANGED <<phase, files, usersFile, FOODS, ALIAS, raw, USERS, lastSel>>

cmd_list(u) == list_command(u, "cmd_list", None)
cmd_list_increase(u) == list_command(u, "cmd_list_increase", Str(INCREASE))
cmd_list_decrease(u) == list_command(u, "cmd_list_decrease", Str(DECREASE))

\* cb_paging, health.py:307-314, on callback data "page:<digits>".
cb_paging(u, data) ==
    /\ phase = "run"
    /\ str_startswith(data, PAGE_)
    /\ LET page   == str_to_int(after_colon(data))
           stored == IF "pairs" \in DOMAIN user_data[u] THEN user_data[u]["pairs"] ELSE <<>>
           pairs  == IF stored /= <<>> THEN stored ELSE _names_sorted(get_lang(u), None)
       IN  /\ user_data' = [user_data EXCEPT ![u] = ("page" :> page) @@ @]
           /\ outbox' = <<[kind |-> "edit_markup",
                           reply_markup |-> _alphabet_pages(pairs, page, PerPageDefault)]>>
           /\ navSince' = [navSince EXCEPT ![u] = <<page>>]
           /\ navShown' = [navShown EXCEPT ![u] = <<page>>]
    /\ call' = [op |-> "cb_paging", user |-> u]
    /\ UNCHANGED <<phase, files, usersFile, FOODS, ALIAS, raw, USERS,
                   lastSel, lastList, lastShown>>

----------------------------------------------------------------------------
(* cmd_food, health.py:352-381 *)

FoodLimit == 7
ConfidencePercent == 75

SPACE == <<" ">>

\* The strs of a synonyms field as ' '.join reads them.
syn_strs(x) == [i \in 1..Len(unpack(x)) |-> unpack(x)[i].v]

\* ref_text of health.py:369-370 for the record under key.
ref_text(key) ==
    LET it == DictGet(FOODS, key)
    IN  it.name_uk \o SPACE \o it.name_en \o SPACE
           \o str_join(SPACE, syn_strs(it.synonyms_uk)) \o SPACE
           \o str_join(SPACE, syn_strs(it.synonyms_en))

\* The test of health.py:371 negated: the top candidate is taken as it is.
confident(query, key) ==
    RatioAtLeast(ratio(_norm(Str(query)), _norm(Str(ref_text(key)))), ConfidencePercent)

\* The name shown for a key in a language (the button titles it).
shown_name(key, lang) ==
    IF lang = UK THEN DictGet(FOODS, key).name_uk ELSE DictGet(FOODS, key).name_en

\* The messages cmd_food sends for the arguments; photo_ok says whether
\* Telegram accepts the photo of a card that has an image.
food_reply(u, args, photo_ok) ==
    LET lang    == get_lang(u)
        query   == str_join(SPACE, args)
        matches == search_foods(query, FoodLimit)
        key     == matches[1]
    IN  IF args = <<>> THEN <<[kind |-> "usage", main_kb |-> lang]>>
        ELSE IF matches = <<>> THEN <<[kind |-> "no_results", main_kb |-> lang]>>
        ELSE IF ~confident(query, key)
        THEN <<[kind |-> "choices",
                buttons |-> [i \in 1..Len(matches) |->
                                [name |-> shown_name(matches[i], lang),
                                 callback_data |-> SHOW_ \o matches[i]]]]>>
        ELSE IF Truthy(DictGet(FOODS, key).image) /\ photo_ok
        THEN <<[kind |-> "card", key |-> key, lang |-> lang, with |-> "photo"]>>
        ELSE <<[kind |-> "card", key |-> key, lang |-> lang, with |-> "text"]>>

cmd_food(u, args) ==
    /\ phase = "run"
    /\ \E photo_ok \in BOOLEAN : outbox' = food_reply(u, args, photo_ok)
    /\ call' = [op |-> "cmd_food", user |-> u, args |-> args]
    /\ UNCHANGED <<phase, files, usersFile, FOODS, ALIAS, raw, USERS, user_data, history>>

----------------------------------------------------------------------------
(* The bottom menu and on_text, health.py:145-159 and 384-444.  The emoji   *)
(* of a button is one character that _norm does not keep, and the Cyrillic  *)
(* captions are written in Latin letters.                                   *)

FLAGS_BUTTON == <<"%", " ", "/", " ", "%">>
SEARCH_EN == <<"@", " ", "S", "e", "a", "r", "c", "h">>
SEARCH_UK == <<"@", " ", "P", "o", "s", "h", "u", "k">>
LIST_EN == <<"#", " ", "L", "i", "s", "t">>
LIST_UK == <<"#", " ", "S", "p", "y", "s", "o", "k">>
INCREASE_EN == <<"^", " ", "I", "n", "c", "r", "e", "a", "s", "e">>
INCREASE_UK == <<"^", " ", "P", "i", "d", "s", "y", "l">>
DECREASE_EN == <<"_", " ", "D", "e", "c", "r", "e", "a", "s", "e">>
DECREASE_UK == <<"_", " ", "P", "o", "s", "l", "a", "b">>

\* The captions of main_kb(lang), by what the button does.
main_kb(lang) ==
    IF lang = EN
    THEN [search |-> SEARCH_EN, list |-> LIST_EN,
          increase |-> INCREASE_EN, decrease |-> DECREASE_EN]
    ELSE [search |-> SEARCH_UK, list |-> LIST_UK,
          increase |-> INCREASE_UK, decrease |-> DECREASE_UK]

\* context.user_data.get("awaiting_query"), as a condition.
awaiting_query(u) ==
    "awaiting_query" \in DOMAIN user_data[u] /\ user_data[u]["awaiting_query"]

\* An on_text that takes the awaited text as the query and goes on waiting.
on_text_keeps_waiting(u, text) ==
    /\ phase = "run"
    /\ LET lang == get_lang(u)
           t    == str_strip(text)
       IN  IF t = FLAGS_BUTTON
           THEN /\ outbox' = <<[kind |-> "choose_language", checked |-> lang]>>
                /\ UNCHANGED <<user_data, lastList, lastShown, navSince, navShown>>
           ELSE IF awaiting_query(u)
           THEN /\ UNCHANGED user_data
                /\ \E photo_ok \in BOOLEAN :
                       outbox' = food_reply(u, <<t>>, photo_ok)
                                    \o <<[kind |-> "done", main_kb |-> lang]>>
                /\ UNCHANGED <<lastList, lastShown, navSince, navShown>>
           ELSE IF t = main_kb(lang).search
           THEN /\ user_data' = [user_data EXCEPT
                                    ![u] = ("awaiting_query" :> TRUE) @@ @]
                /\ outbox' = <<[kind |-> "enter_name", main_kb |-> lang]>>
                /\ UNCHANGED <<lastList, lastShown, navSince, navShown>>
           ELSE IF t = main_kb(lang).list
           THEN list_effects(u, "cmd_list", None)
           ELSE IF t = main_kb(lang).increase
           THEN list_effects(u, "cmd_list_increase", Str(INCREASE))
           ELSE IF t = main_kb(lang).decrease
           THEN list_effects(u, "cmd_list_decrease", Str(DECREASE))
           ELSE /\ IF search_foods(t, 1) /= <<>>
                   THEN \E photo_ok \in BOOLEAN : outbox' = food_reply(u, <<t>>, photo_ok)
                   ELSE outbox' = <<[kind |-> "no_results", main_kb |-> lang]>>
                /\ UNCHANGED <<user_data, lastList, lastShown, navSince, navShown>>
    /\ call' = [op |-> "on_text", user |-> u, text |-> text]
    /\ UNCHANGED <<phase, files, usersFile, FOODS, ALIAS, raw, USERS, lastSel>>

\* on_text, health.py:384-444, on a message that is text and no command.
on_text(u, text) ==
    /\ phase = "run"
    /\ LET lang == get_lang(u)
           t    == str_strip(text)
       IN  IF t = FLAGS_BUTTON
           THEN /\ outbox' = <<[kind |-> "choose_language", checked |-> lang]>>
                /\ UNCHANGED <<user_data, lastList, lastShown, navSince, navShown>>
           ELSE IF awaiting_query(u)
           THEN /\ user_data' = [user_data EXCEPT
                                    ![u] = ("awaiting_query" :> FALSE) @@ @]
                /\ \E photo_ok \in BOOLEAN :
                       outbox' = food_reply(u, <<t>>, photo_ok)
                                    \o <<[kind |-> "done", main_kb |-> lang]>>
                /\ UNCHANGED <<lastList, lastShown, navSince, navShown>>
           ELSE IF t = main_kb(lang).search
           THEN /\ user_data' = [user_data EXCEPT
                                    ![u] = ("awaiting_query" :> TRUE) @@ @]
                /\ outbox' = <<[kind |-> "enter_name", main_kb |-> lang]>>
                /\ UNCHANGED <<lastList, lastShown, navSince, navShown>>
           ELSE IF t = main_kb(lang).list
           THEN list_effects(u, "cmd_list", None)
           ELSE IF t = main_kb(lang).increase
           THEN list_effects(u, "cmd_list_increase", Str(INCREASE))
           ELSE IF t = main_kb(lang).decrease
           THEN list_effects(u, "cmd_list_decrease", Str(DECREASE))
           ELSE /\ IF search_foods(t, 1) /= <<>>
                   THEN \E photo_ok \in BOOLEAN : outbox' = food_reply(u, <<t>>, photo_ok)
                   ELSE outbox' = <<[kind |-> "no_results", main_kb |-> lang]>>
                /\ UNCHANGED <<user_data, lastList, lastShown, navSince, navShown>>
    /\ call' = [op |-> "on_text", user |-> u, text |-> text]
    /\ UNCHANGED <<phase, files, usersFile, FOODS, ALIAS, raw, USERS, lastSel>>

\* A handler that only replies: its messages, nothing stored.
replies(u, op, messages) ==
    /\ phase = "run"
    /\ outbox' = messages
    /\ call' = [op |-> op, user |-> u]
    /\ UNCHANGED <<phase, files, usersFile, FOODS, ALIAS, raw, USERS, user_data, history>>

\* cmd_start, health.py:244-249
cmd_start(u) == replies(u, "cmd_start", <<[kind |-> "welcome", main_kb |-> get_lang(u)]>>)

\* cmd_lang, health.py:251-258
cmd_lang(u) == replies(u, "cmd_lang", <<[kind |-> "choose_language", checked |-> get_lang(u)]>>)

\* cb_show, health.py:329-340, on callback data "show:<key>"
cb_show(u, data) ==
    /\ str_startswith(data, SHOW_)
    /\ LET key == after_colon(data)
       IN  IF ~DictHas(FOODS, key)
           THEN replies(u, "cb_show", <<[kind |-> "not_found", main_kb |-> get_lang(u)]>>)
           ELSE \E photo_ok \in BOOLEAN :
                    replies(u, "cb_show",
                            <<[kind |-> "card", key |-> key, lang |-> get_lang(u),
                               with |-> IF Truthy(DictGet(FOODS, key).image) /\ photo_ok
                                        THEN "photo" ELSE "text"]>>)

NUT_ == <<"n", "u", "t", ":">>

\* cb_nutrition, health.py:342-349, on callback data "nut:<key>"
cb_nutrition(u, data) ==
    /\ str_startswith(data, NUT_)
    /\ replies(u, "cb_nutrition",
               <<[kind |-> "nutrition", key |-> after_colon(data), main_kb |-> get_lang(u)]>>)

----------------------------------------------------------------------------

\* The updates Telegram may deliver, by the handler that takes them.
LangUpdate == \E u \in Users, v \in LangValues : cb_lang(u, LANG_ \o v)
ListUpdate == \E u \in Users : cmd_list(u)
IncreaseUpdate == \E u \in Users : cmd_list_increase(u)
DecreaseUpdate == \E u \in Users : cmd_list_decrease(u)
PageUpdate == \E u \in Users, p \in 0..MaxPage : cb_paging(u, PAGE_ \o int_to_str(p))
FoodUpdate == \E u \in Users, args \in FoodArgs : cmd_food(u, args)

\* The bot: every handler.
Next ==
    \/ Import
    \/ LangUpdate
    \/ ListUpdate
    \/ IncreaseUpdate
    \/ DecreaseUpdate
    \/ PageUpdate
    \/ FoodUpdate

Spec == Init /\ [][Next]_vars

\* The bot receiving language selections only.
NextLang == Import \/ LangUpdate
SpecLang == Init /\ [][NextLang]_vars

LangSwitch == \E u \in Users, v \in ButtonLangValues : cb_lang(u, LANG_ \o v)
BrowseList == \E u \in Browsers : cmd_list(u)
BrowseIncrease == \E u \in Browsers : cmd_list_increase(u)
BrowseDecrease == \E u \in Browsers : cmd_list_decrease(u)
BrowsePage == \E u \in Browsers, p \in 0..MaxPage : cb_paging(u, PAGE_ \o int_to_str(p))

\* The bot with every user switching language and one user browsing the
\* lists: listing commands and page navigation.
NextCursor ==
    \/ Import
    \/ LangSwitch
    \/ BrowseList
    \/ BrowseIncrease
    \/ BrowseDecrease
    \/ BrowsePage
SpecCursor == Init /\ [][NextCursor]_vars

\* The bot receiving language switches and /food commands.
NextFood == Import \/ LangSwitch \/ FoodUpdate
SpecFood == Init /\ [][NextFood]_vars

\* The texts the browsing user sends: the buttons of both keyboards, one of
\* them with spaces around it, and names typed in.
MenuTexts ==
    {FLAGS_BUTTON, SEARCH_EN, SEARCH_UK, <<" ">> \o SEARCH_UK \o <<" ">>,
     LIST_EN, LIST_UK, INCREASE_EN, DECREASE_UK, ab, <<"z", "z">>}

\* The texts every other user sends.
OtherTexts == {SEARCH_UK, ab}

MenuLang == \E u \in Browsers, v \in ButtonLangValues : cb_lang(u, LANG_ \o v)
MenuText == \E u \in Browsers, text \in MenuTexts : on_text(u, text)
OtherText == \E u \in Users \ Browsers, text \in OtherTexts : on_text(u, text)
StartCommand == \E u \in Browsers : cmd_start(u)
LangCommand == \E u \in Browsers : cmd_lang(u)
FoodCommand == \E u \in Browsers : cmd_food(u, <<ab>>)
PageCallback == \E u \in Browsers : cb_paging(u, PAGE_ \o int_to_str(1))
ShowCallback == \E u \in Browsers, key \in {ab, <<"z", "z">>} : cb_show(u, SHOW_ \o key)
NutritionCallback == \E u \in Browsers : cb_nutrition(u, NUT_ \o ab)

\* The bot with the bottom menu: one user sending texts, commands and
\* callbacks and switching language, the others sending texts.
NextMenu ==
    \/ Import
    \/ MenuLang
    \/ MenuText
    \/ OtherText
    \/ StartCommand
    \/ LangCommand
    \/ FoodCommand
    \/ BrowseList
    \/ PageCallback
    \/ ShowCallback
    \/ NutritionCallback
SpecMenu == Init /\ [][NextMenu]_vars

----------------------------------------------------------------------------
(* The indexer and the resolver on their own: the data files are drawn      *)
(* from IndexInputs, the module is imported, and search_foods is called.    *)

ac == <<"a", "c">>
abd == <<"a", "b", "d">>
aaaa == <<"a", "a", "a", "a">>

\* An override file that replaces one record of the base file and adds one.
OverrideBase ==
    << <<ab, [name_en |-> Str(ab), advice_en |-> Str(<<"x">>),
              synonyms_en |-> List(<<Str(abd)>>), effect |-> Str(INCREASE)]>>,
       <<cc, [name_uk |-> Str(ba)]>> >>
OverrideUser ==
    << <<ab, [name_uk |-> Str(<<"d", "a">>), effect |-> Str(DECREASE)]>>,
       <<ad, [name |-> Str(ad)]>> >>

\* Two raw records with the same lowercase primary name.
DupFoods ==
    << <<<<"x">>, [name_en |-> Str(<<"A", "b">>), synonyms_en |-> List(<<Str(<<"d", "d">>)>>)]>>,
       <<<<"y">>, [name_en |-> Str(ab)]>> >>

\* One record with more close aliases than difflib is asked for, and one
\* record with a single, less close alias.
TailLetters == <<"b", "c", "d", "e", "f", "g", "h", "i">>
BigSynonyms ==
    [i \in 1..(Len(TailLetters) * Len(TailLetters)) |->
        Str(aaaa \o <<TailLetters[((i - 1) \div Len(TailLetters)) + 1],
                      TailLetters[((i - 1) % Len(TailLetters)) + 1]>>)]
BigFoods ==
    << <<<<"x">>, [name_en |-> Str(aaaa \o <<"b">>), synonyms_en |-> List(BigSynonyms)]>>,
       <<<<"y">>, [name_en |-> Str(<<"a", "a", "z", "z">>)]>> >>

\* One record whose name_en, effect and synonyms_en fields are each missing,
\* empty, well typed or wrongly typed.
Missing == [t |-> "missing"]
NameShapes == {Missing, Str(<<>>), Str(<<"A", "b", " ">>), Num(5)}
EffectShapes ==
    {Missing, Str(<<>>), Str(<<"D", "e", "c", "r", "e", "a", "s", "e">>),
     Str(<<"b", "o", "o", "s", "t">>), Num(5)}
SynonymShapes == {Missing, List(<<>>), List(<<Str(ac)>>), Str(ac), List(<<Num(5)>>)}

ShapedRecord(n, e, sy) ==
    LET val(f) == CASE f = "name_en" -> n [] f = "effect" -> e [] OTHER -> sy
    IN  [f \in {g \in {"name_en", "effect", "synonyms_en"} : val(g) /= Missing} |-> val(f)]

ShapedFoods == {<< <<ad, ShapedRecord(n, e, sy)>> >> :
                    n \in NameShapes, e \in EffectShapes, sy \in SynonymShapes}

\* <<foods.json, user_foods.json>>
IndexInputs ==
    {<<BotFoods, <<>>>>, <<<<>>, <<>>>>, <<OverrideBase, OverrideUser>>,
     <<OverrideUser, OverrideBase>>, <<DupFoods, <<>>>>, <<BigFoods, <<>>>>}
    \cup {<<f, <<>>>> : f \in ShapedFoods}

Queries ==
    {<<>>, <<"!">>, <<"A", "b", "!">>, <<" ", "d", "a", " ">>, ac, <<"z", "z">>,
     aaaa, <<"d", "d">>}

Limits == (0 - 1)..MaxLimit

InitIndex == \E f \in IndexInputs : Boot(f[1], f[2])

\* A call of search_foods(q, n).
SearchFoods(q, n) ==
    /\ phase = "run"
    /\ \E t \in {search_trace(q, n)} :
           call' = [op |-> "search_foods", q |-> q, n |-> n,
                    out |-> t.out, fuzzy |-> t.fuzzy]
    /\ UNCHANGED <<phase, files, usersFile, FOODS, ALIAS, raw, USERS, user_data,
                   outbox, history>>

Search == \E q \in Queries, n \in Limits : SearchFoods(q, n)

NextIndex == Import \/ Search
SpecIndex == InitIndex /\ [][NextIndex]_vars

----------------------------------------------------------------------------
(* The pager on its own: _alphabet_pages applied to drawn arguments.        *)

PagerItems ==
    << <<ab, <<"A", "b">>>>, <<ad, ad>>, <<cc, <<"C", "c">>>>, <<ba, ba>>,
       <<ac, ac>>, <<abd, abd>>, <<aaaa, aaaa>> >>

InitPager ==
    /\ phase = "pager"
    /\ foodsFile = <<>>
    /\ userFoodsFile = <<>>
    /\ usersFile = <<>>
    /\ FOODS = <<>>
    /\ ALIAS = <<>>
    /\ raw = <<>>
    /\ USERS = <<>>
    /\ user_data = NoUser
    /\ outbox = <<>>
    /\ \E len \in 0..MaxItems, page \in 0..MaxPage, per_page \in 1..MaxPerPage :
           call = [op |-> "args", pairs |-> SubSeq(PagerItems, 1, len),
                   page |-> page, per_page |-> per_page]
    /\ lastSel = NoUser
    /\ lastList = NoUser
    /\ lastShown = NoUser
    /\ navSince = NoUser
    /\ navShown = NoUser

Paginate ==
    /\ phase = "pager"
    /\ call.op = "args"
    /\ call' = [op |-> "_alphabet_pages", pairs |-> call.pairs, page |-> call.page,
                per_page |-> call.per_page,
                kb |-> _alphabet_pages(call.pairs, call.page, call.per_page)]
    /\ UNCHANGED <<phase, files, usersFile, FOODS, ALIAS, raw, USERS, user_data,
                   outbox, history>>

NextPager == Paginate
SpecPager == InitPager /\ [][NextPager]_vars

----------------------------------------------------------------------------
(* Properties of the indexer and the resolver, checked under SpecIndex *)

Searched == phase = "run" /\ call.op = "search_foods"

\* The normalized query of the search_foods call just made.
CallNorm == _norm(Str(call.q))

\* C1: once the index is built, a query whose normalization is a registered
\* alias gets exactly the one-element list holding that alias's key, for any
\* limit, and get_close_matches is not called.
C1_ExactAliasHit ==
    Searched =>
        \A i \in 1..Len(ALIAS) :
            CallNorm = ALIAS[i][1] => call.out = <<ALIAS[i][2]>> /\ ~call.fuzzy

\* A raw query that is not its own normalization hits an alias of an index
\* with several aliases, with limit 0.
C1_Witness ==
    /\ Searched
    /\ call.q = <<"A", "b", "!">>
    /\ call.n = 0
    /\ Len(ALIAS) > 2
    /\ DictHas(ALIAS, ab)
    /\ call.out = <<DictGet(ALIAS, ab)>>

\* The canonical keys met when every registered alias with similarity at
\* least the cutoff is walked best first, each key once.
AllCloseKeys(qn) ==
    Bind(SortScored(SelectSeq([i \in 1..Len(ALIAS) |-> <<ratio(ALIAS[i][1], qn), ALIAS[i][1]>>],
                              LAMBDA p : RatioAtLeast(p[1], CutoffPercent))),
         LAMBDA walk :
             Bind([i \in 1..Len(walk) |-> DictGet(ALIAS, walk[i][2])],
                  LAMBDA ks :
                      SelectSeq([i \in 1..Len(ks) |->
                                    IF \A j \in 1..(i - 1) : ks[j] /= ks[i]
                                    THEN <<ks[i]>> ELSE <<>>],
                                LAMBDA x : x /= <<>>)))

\* C2: for a query that is not empty after normalization and is no registered
\* alias, and a limit of at least 1, search_foods returns the first `limit`
\* distinct keys of the walk over ALL aliases with similarity >= 0.45, best
\* first, whatever the number of aliases.
C2_FuzzyIsThresholdSortDedupe ==
    (Searched /\ CallNorm /= <<>> /\ ~DictHas(ALIAS, CallNorm) /\ call.n >= 1) =>
        Bind(AllCloseKeys(CallNorm),
             LAMBDA ks : call.out = [i \in 1..Len(Slice(ks, 0, call.n)) |-> ks[i][1]])

\* C3: for a query that is no registered alias and any limit from 0 up, the
\* list returned holds no key twice and at most `limit` keys.
C3_DistinctAndAtMostLimit ==
    (Searched /\ ~DictHas(ALIAS, CallNorm) /\ call.n >= 0) =>
        /\ \A i, j \in 1..Len(call.out) : i /= j => call.out[i] /= call.out[j]
        /\ Len(call.out) <= call.n

\* The canonical key rebuild_indexes gives a well-typed raw record.
canon_of(key, it) == str_lower(item_of(key, it).name_en)

InBoth == DictKeySet(foodsFile) \cap DictKeySet(userFoodsFile)

PassedFields ==
    {"vitamin_k", "advice_en", "image", "synonyms_en", "synonyms_uk", "sources", "nutrition"}

\* C5: the merged corpus holds the override record whole for a key of both
\* files and the only record of a key of one file; the record indexed for a
\* key of both files is the one built from the override record alone (where
\* no other raw record has its canonical key), and no value that only the
\* base record has is in it.
C5_OverrideReplacesWhole ==
    (phase \in {"run", "crashed"}) =>
        /\ DictKeySet(raw) = DictKeySet(foodsFile) \cup DictKeySet(userFoodsFile)
        /\ \A k \in DictKeySet(raw) :
               DictGet(raw, k) = IF DictHas(userFoodsFile, k)
                                 THEN DictGet(userFoodsFile, k)
                                 ELSE DictGet(foodsFile, k)
        /\ phase = "run" =>
               \A k \in InBoth :
                   LET o == DictGet(userFoodsFile, k)
                       b == DictGet(foodsFile, k)
                   IN  (\A k2 \in DictKeySet(raw) \ {k} :
                            canon_of(k2, DictGet(raw, k2)) /= canon_of(k, o))
                       => /\ DictHas(FOODS, canon_of(k, o))
                          /\ DictGet(FOODS, canon_of(k, o)) = item_of(k, o)
                          /\ \A f \in PassedFields \cap (DOMAIN b \ DOMAIN o) :
                                 Truthy(b[f]) => DictGet(FOODS, canon_of(k, o))[f] /= b[f]

\* The index is built from two files that both hold the key "ab", with
\* different records, the base one with an advice and a synonym of its own.
C5_Witness ==
    /\ phase = "run"
    /\ ab \in InBoth
    /\ DictGet(foodsFile, ab) /= DictGet(userFoodsFile, ab)
    /\ "advice_en" \in DOMAIN DictGet(foodsFile, ab) \ DOMAIN DictGet(userFoodsFile, ab)
    /\ DictGet(FOODS, ab).advice_en = Str(<<>>)
    /\ DictGet(FOODS, ab).effect = DECREASE
    /\ ~DictHas(ALIAS, abd)

\* The name rebuild_indexes is to give a raw record: the first of its name
\* fields that holds a non-empty str, and its key when there is none.
expected_name(key, it) ==
    LET good(f) == Get(it, f).t = "str" /\ Get(it, f).v /= <<>>
    IN  str_strip(IF good("name_en") THEN it["name_en"].v
                  ELSE IF good("en") THEN it["en"].v
                  ELSE IF good("name") THEN it["name"].v
                  ELSE key)

IsStrList(x) == x.t = "list" /\ \A i \in 1..Len(x.v) : x.v[i].t = "str"

\* C6: rebuild_indexes never fails on a malformed record field: the build
\* completes and registers, for every raw record, a record in which each
\* missing or malformed field holds its default, its effect one of increase,
\* decrease and neutral (neutral for a value that is none of them).
C6_BuildNeverFails ==
    /\ phase /= "crashed"
    /\ phase = "run" =>
           \A i \in 1..Len(raw) :
               LET key   == raw[i][1]
                   it    == raw[i][2]
                   canon == str_lower(expected_name(key, it))
               IN  /\ DictHas(FOODS, canon)
                   /\ DictGet(FOODS, canon).effect \in {INCREASE, DECREASE, NEUTRAL}
                   /\ Get(it, "effect").t /= "str" => DictGet(FOODS, canon).effect = NEUTRAL
                   /\ ~IsStrList(Get(it, "synonyms_en"))
                          => DictGet(FOODS, canon).synonyms_en = List(<<>>)

\* The strs an indexed record is known by: its two names and its synonyms.
names_of(item) == {variants_of(item)[i] : i \in 1..Len(variants_of(item))}

\* C10: in the indexes rebuild_indexes builds from any corpus, every alias
\* entry a -> k has k a key of the record map and a the normalization of a
\* name or a synonym of the record stored under k.
C10_AliasPointsToItsRecord ==
    phase = "run" =>
        \A i \in 1..Len(ALIAS) :
            /\ DictHas(FOODS, ALIAS[i][2])
            /\ \E x \in names_of(DictGet(FOODS, ALIAS[i][2])) : _norm(x) = ALIAS[i][1]

----------------------------------------------------------------------------
(* The pager, checked under SpecPager *)

\* C4: for every pair list, page index >= 0 and page size >= 1,
\* _alphabet_pages shows exactly items[page*size : page*size+size] in order,
\* one row each, then the previous-page button iff page > 0, targeting
\* page-1, and the next-page button iff (page+1)*size < len(items), targeting
\* page+1; a page with page*size >= len(items) shows no item and no next
\* button.
C4_PageSliceAndNavigation ==
    call.op = "_alphabet_pages" =>
        LET items   == call.pairs
            lo      == call.page * call.per_page
            n       == Cardinality({i \in 1..Len(items) : lo < i /\ i <= lo + call.per_page})
            hasPrev == call.page > 0
            hasNext == (call.page + 1) * call.per_page < Len(items)
            navLen  == (IF hasPrev THEN 1 ELSE 0) + (IF hasNext THEN 1 ELSE 0)
        IN  /\ Len(call.kb) = n + (IF navLen > 0 THEN 1 ELSE 0)
            /\ \A i \in 1..n :
                   call.kb[i] = <<[text |-> items[lo + i][2],
                                   callback_data |-> SHOW_ \o items[lo + i][1]]>>
            /\ navLen > 0 =>
                   /\ Len(call.kb[n + 1]) = navLen
                   /\ hasPrev => call.kb[n + 1][1] =
                          [text |-> "prev",
                           callback_data |-> PAGE_ \o int_to_str(call.page - 1)]
                   /\ hasNext => call.kb[n + 1][navLen] =
                          [text |-> "next",
                           callback_data |-> PAGE_ \o int_to_str(call.page + 1)]
            /\ lo >= Len(items) => n = 0 /\ ~hasNext

\* The last full page of a list that ends with it: two items shown, a
\* previous-page button and no next-page button.
C4_Witness ==
    /\ call.op = "_alphabet_pages"
    /\ Len(call.pairs) = 4
    /\ call.page = 1
    /\ call.per_page = 2
    /\ Len(call.kb) = 3
    /\ Len(call.kb[3]) = 1
    /\ call.kb[3][1].text = "prev"

----------------------------------------------------------------------------
(* The language preference, checked under SpecLang *)

\* The tag the last selection of a user stands for, 'uk' without a selection.
selected_tag(u) ==
    IF lastSel[u] = <<>> THEN UK
    ELSE LET v == lastSel[u][1]
         IN  IF Len(v) >= 2 /\ v[1] \in {"e", "E"} /\ v[2] \in {"n", "N"} THEN EN ELSE UK

C7_TagOfLastSelection ==
    phase = "run" =>
        /\ \A u \in Users : get_lang(u) \in {UK, EN} /\ get_lang(u) = selected_tag(u)
        /\ usersFile = USERS

C7_OthersKeepTheirTag ==
    \A u \in Users :
        (call'.op = "cb_lang" /\ call'.user /= u) => get_lang(u)' = get_lang(u)

\* C7: from an empty preference store, after any language selections by any
\* users, get_lang(u) is one of two tags: 'uk' if u never selected, else the
\* tag of u's latest selection ('en' if its value starts with 'en', else
\* 'uk'); a selection by one user changes no other user's tag; the persisted
\* store equals the in-memory map after every selection.
C7_LanguagePreference == [](C7_TagOfLastSelection) /\ [][C7_OthersKeepTheirTag]_vars

\* Two users whose latest selections stand for different tags, the latest
\* one being a value that only starts with 'en'.
C7_Witness ==
    /\ phase = "run"
    /\ call.op = "cb_lang"
    /\ call.user = 1
    /\ lastSel[1] = <<<<"E", "N", "G">>>>
    /\ lastSel[2] = <<<<"f", "r">>>>
    /\ get_lang(1) = EN
    /\ get_lang(2) = UK
    /\ usersFile = USERS

----------------------------------------------------------------------------
(* The page cursor, checked under SpecCursor *)

Stored(u, f) == IF f \in DOMAIN user_data[u] THEN <<user_data[u][f]>> ELSE <<>>

ListOps == {"cmd_list", "cmd_list_increase", "cmd_list_decrease"}

\* C8 as the specification states it: for a user who ran a listing command,
\* the cursor's pair list is the list the most recent listing command
\* produced, and its page is 0 if no navigation followed that command and the
\* page the latest navigation asked for otherwise.
C8_CursorOfLastListing ==
    \A u \in Users :
        lastList[u] /= <<>> =>
            /\ Stored(u, "pairs") = lastList[u]
            /\ Stored(u, "page") = IF navSince[u] = <<>> THEN <<0>> ELSE navSince[u]

C8_CursorOfLastShown ==
    \A u \in Users :
        lastShown[u] /= <<>> =>
            /\ Stored(u, "pairs") = lastShown[u]
            /\ Stored(u, "page") = IF navShown[u] = <<>> THEN <<0>> ELSE navShown[u]

C8_StepKeeps ==
    \A u \in Users :
        /\ (call'.op = "cb_paging" /\ call'.user = u) =>
               /\ Stored(u, "pairs")' = Stored(u, "pairs")
               /\ Stored(u, "page")' = navShown'[u]
               /\ navShown'[u] /= <<>>
        /\ (call'.op \in ListOps /\ call'.user = u /\ lastList'[u] = <<<<>>>>) =>
               user_data'[u] = user_data[u]

\* C8, amended: the cursor's pair list is the list of the most recent listing
\* command that produced a non-empty list, and its page is 0 if no navigation
\* followed that command and the page the latest navigation asked for
\* otherwise; a listing command that produces an empty list leaves the cursor
\* as it was; a navigation changes only the page index, never the pair list.
C8_CursorOfLastNonEmptyListing == [](C8_CursorOfLastShown) /\ [][C8_StepKeeps]_vars

\* A listing shown, then a listing command that produced nothing, then a
\* navigation to page 2 of the list still stored.
C8_Witness ==
    /\ call.op = "cb_paging"
    /\ lastList[1] = <<<<>>>>
    /\ lastShown[1] /= <<>>
    /\ Len(lastShown[1][1]) = 3
    /\ Stored(1, "pairs") = lastShown[1]
    /\ Stored(1, "page") = <<2>>

----------------------------------------------------------------------------
(* The food command, checked under SpecFood *)

\* C9: when the resolver returns a non-empty list for the query of /food,
\* the card of the top candidate is sent iff the similarity of the normalized
\* query and the normalized names and synonyms of that record is at least
\* 0.75; otherwise no card is sent and a list of several candidates is
\* presented, one entry per resolver result in resolver order.
C9_CardIffConfident ==
    (phase = "run" /\ call.op = "cmd_food" /\ call.args /= <<>>) =>
        LET query   == str_join(SPACE, call.args)
            matches == search_foods(query, FoodLimit)
        IN  matches /= <<>> =>
                /\ Len(outbox) = 1
                /\ IF confident(query, matches[1])
                   THEN outbox[1].kind = "card" /\ outbox[1].key = matches[1]
                   ELSE /\ outbox[1].kind = "choices"
                        /\ Len(outbox[1].buttons) >= 2
                        /\ Len(outbox[1].buttons) = Len(matches)
                        /\ \A i \in 1..Len(matches) :
                               outbox[1].buttons[i].callback_data = SHOW_ \o matches[i]

----------------------------------------------------------------------------
(* The awaiting-query flag, checked under SpecMenu *)

\* The step handles a text message of user u.
TextOf(u) == call'.op = "on_text" /\ call'.user = u

\* context.user_data of u without the flag.
BesidesFlag(u) ==
    [f \in DOMAIN user_data[u] \ {"awaiting_query"} |-> user_data[u][f]]

C11_Step ==
    \A u \in Users :
        /\ (~awaiting_query(u) /\ awaiting_query(u)') =>
               /\ TextOf(u)
               /\ str_strip(call'.text) =
                      (IF get_lang(u) = EN THEN SEARCH_EN ELSE SEARCH_UK)
        /\ (awaiting_query(u) /\ TextOf(u) /\ str_strip(call'.text) /= FLAGS_BUTTON) =>
               /\ ~awaiting_query(u)'
               /\ BesidesFlag(u)' = BesidesFlag(u)
               /\ Len(outbox') = 2
               /\ outbox'[1].kind \in {"card", "choices", "no_results"}
               /\ \E photo_ok \in BOOLEAN :
                      outbox'[1] = food_reply(u, <<str_strip(call'.text)>>, photo_ok)[1]
               /\ outbox'[2].kind = "done"
        /\ (~TextOf(u) \/ str_strip(call'.text) = FLAGS_BUTTON) =>
               awaiting_query(u)' = awaiting_query(u)

\* C11: for each user, the awaiting-query flag becomes true only when the
\* Search button of the user's keyboard is handled while the flag is false;
\* while it is true, the next text of the user other than the language
\* switch is handled as a food query, never as a menu action, and resets the
\* flag in the same step; language-switch texts, commands, callbacks and the
\* steps of other users leave the flag as it is.
C11_AwaitingQueryFlag == [][C11_Step]_vars

\* After Search, the caption of the List button was sent and taken as the
\* query: the flag is stored false, no list is stored, the reply ends with
\* the closing message, and another user is still awaited.
C11_Witness ==
    /\ call.op = "on_text"
    /\ call.user = 1
    /\ call.text = LIST_UK
    /\ get_lang(1) = UK
    /\ "awaiting_query" \in DOMAIN user_data[1]
    /\ ~awaiting_query(1)
    /\ "pairs" \notin DOMAIN user_data[1]
    /\ Len(outbox) = 2
    /\ outbox[2].kind = "done"
    /\ awaiting_query(2)

====
